---------------------------- MODULE Spec2Model ----------------------------
(***************************************************************************)
(* A model of the dispatch subsystem of LMApi: the server pool registry    *)
(* (ServerPoolService), the model cache (ModelCacheService), the request   *)
(* queue and dispatcher (QueueService) and the HTTP routes that drive      *)
(* them (promptRoutes, serverRoutes).                                      *)
(*                                                                         *)
(* The program runs on one JavaScript event loop: code between two awaits  *)
(* runs to completion, so every action below is the code from one          *)
(* suspension point to the next.  The suspension points are the fetch of   *)
(* /api/tags in refreshCache and the fetch of /api/generate or             *)
(* /api/embeddings in runRequest.                                          *)
(***************************************************************************)
EXTENDS Integers, Sequences, FiniteSets, Bags, TLC

(***************************************************************************)
(* Bounds of the model.                                                    *)
(***************************************************************************)
\* Requests accepted by the dispatcher (randomUUID calls) in one run.
MaxReq == 2
\* The same, in the runs without refresh calls (NoRefreshSpec).
MaxReqNoRefresh == 3
\* Refresh calls (POST /servers/refresh, POST /servers/:name/refresh) in one run.
MaxRefresh == 2

\* Requests accepted in the runs without refresh calls in which requests may
\* name a server (QueueSpec).
MaxReqQueue == 4

\* Calls of the model cache's methods in one run of the cache on its own
\* (CacheSpec).
MaxCacheCalls == 3

\* The length of the model names modelMatches is applied to (MatchSpec).
MaxNameLen == 3

\* Requests accepted in the runs that follow each execution from its fetch to
\* its end (ExecSpec).
MaxReqExec == 2

\* Requests accepted in the runs in which dispatchDirect is called (DirectSpec).
MaxReqDirect == 3

\* Requests accepted in the runs of wildcard requests with refreshes of single
\* servers (WildcardSpec).
MaxReqWildcard == 3

\* The longest models list of a POST /generate/batch body (BatchSpec).
MaxBatch == 3

(***************************************************************************)
(* The configuration: servers.json, in priority order.                     *)
(***************************************************************************)
ConfigServers == <<"a", "b">>

Servers == {ConfigServers[i] : i \in 1..Len(ConfigServers)}

\* The name that stands for "no server": undefined in the source.
NoServer == "undefined"

(***************************************************************************)
(* Model names are character sequences, so that the split at ":" is        *)
(* computed and not assumed.                                               *)
(***************************************************************************)
Colon == ":"

Latest == <<"l", "a", "t", "e", "s", "t">>

NameM == <<"m">>

NameMLatest == <<"m", ":", "l", "a", "t", "e", "s", "t">>

NameM7 == <<"m", ":", "7">>

\* The model names a request may carry.
RequestModels == {NameM}

\* The model lists a server's /api/tags may answer with.
TagLists == {<< >>, <<NameMLatest>>, <<NameM7>>}

\* The outcomes of a fetch of /api/tags: a 2xx reply carrying a model list, or
\* a failure (timeout, connection error, non-2xx status, malformed body).
FetchOutcomes ==
    {[ok |-> TRUE, models |-> l] : l \in TagLists}
        \cup {[ok |-> FALSE, models |-> << >>]}

\* String.prototype.split(':'): the parts between the separators.
RECURSIVE SplitFrom(_, _, _)
SplitFrom(name, i, cur) ==
    IF i > Len(name) THEN <<cur>>
    ELSE IF name[i] = Colon THEN <<cur>> \o SplitFrom(name, i + 1, << >>)
    ELSE SplitFrom(name, i + 1, Append(cur, name[i]))

split(name) == SplitFrom(name, 1, << >>)

\* const [base, tag] = name.split(':'); return { base, tag: tag ?? 'latest' }
parse(name) ==
    LET parts == split(name)
    IN  [base |-> parts[1],
         tag  |-> IF Len(parts) >= 2 THEN parts[2] ELSE Latest]

modelMatches(availableModel, requestedModel) ==
    LET a == parse(availableModel)
        b == parse(requestedModel)
    IN  a.base = b.base /\ a.tag = b.tag

(***************************************************************************)
(* The state.                                                              *)
(***************************************************************************)
VARIABLES
    statusMap,     \* ServerPoolService.statusMap: name -> ServerStatus
    statusKeys,    \* the insertion order of statusMap's keys
    cache,         \* ModelCacheService.cache: base URL (one per server) -> entry
    queue,         \* QueueService.queue
    isProcessing,  \* QueueService.isProcessing
    running,       \* the runRequest calls suspended at their fetch
    fetching,      \* the refreshCache calls suspended at their fetch (a bag)
    nextId,        \* the number of the next request id
    reqCap,        \* the number of requests this run accepts
    nRefresh,      \* the refresh calls made so far
    phase,         \* app.ts start(): "new", "initializing", "listening"
    now,           \* Date.now()
    last,          \* the step just taken, as its caller observes it
    awaitingBody,  \* the ids of the runRequest calls suspended at response.json()
    history,       \* the rows DbService.insertPromptHistory was called with
    returned         \* what the runRequest call that ended last returned

vars == <<statusMap, statusKeys, cache, queue, isProcessing, running,
          fetching, nextId, reqCap, nRefresh, phase, now, last,
          awaitingBody, history, returned>>

\* No cache entry for a base URL.
NoEntry == [present |-> FALSE, models |-> << >>, timestamp |-> 0]

\* The request's server field that lets the dispatcher choose.
AnyServer == "any"

\* No runRequest call has returned yet.
NoResult == [response |-> << >>, serverName |-> "undefined", model |-> << >>]

(***************************************************************************)
(* ModelCacheService.refreshCache, from the fetch's outcome on.            *)
(***************************************************************************)
\* The cache after the fetch for server s ended with outcome.
refreshCacheStore(c, s, outcome, t) ==
    IF outcome.ok
    THEN [c EXCEPT ![s] = [present |-> TRUE, models |-> outcome.models,
                           timestamp |-> t]]
    ELSE c

\* A variant of the catch block that returns the empty list whatever the cache
\* holds.
refreshCacheResultNoStale(c, s, outcome) ==
    IF outcome.ok THEN outcome.models ELSE << >>

\* What refreshCache returns.
refreshCacheResult(c, s, outcome) ==
    IF outcome.ok
    THEN outcome.models
    ELSE IF c[s].present THEN c[s].models ELSE << >>

(***************************************************************************)
(* ServerPoolService.                                                      *)
(***************************************************************************)
\* A variant of Map.prototype.set that moves an existing key to the end, as a
\* delete followed by a set does.
mapSetKeysMoveToEnd(keys, name) ==
    Append(SelectSeq(keys, LAMBDA k : k # name), name)

\* Map.prototype.set: a new key goes last, an existing key keeps its place.
mapSetKeys(keys, name) ==
    IF \E i \in 1..Len(keys) : keys[i] = name THEN keys ELSE Append(keys, name)

\* Array.from(statusMap.values()): the names, in the map's iteration order.
getServers(keys) == keys

getServer(sm, name) == IF name \in DOMAIN sm THEN name ELSE NoServer

someModelMatches(models, modelName) ==
    \E i \in 1..Len(models) : modelMatches(models[i], modelName)

serverSupportsModel(sm, s, modelName) ==
    sm[s].isOnline /\ someModelMatches(sm[s].models, modelName)

getAvailableServersForModel(sm, keys, modelName) ==
    SelectSeq(getServers(keys),
              LAMBDA s : sm[s].isOnline
                           /\ someModelMatches(sm[s].models, modelName))

\* A variant that takes the last free candidate instead of the first.
getBestServerForModelLast(sm, keys, modelName) ==
    LET candidates == getAvailableServersForModel(sm, keys, modelName)
        freeCandidates == SelectSeq(candidates,
                                    LAMBDA s : sm[s].activeRequests = 0)
    IN  IF Len(freeCandidates) > 0 THEN freeCandidates[Len(freeCandidates)]
        ELSE NoServer

getBestServerForModel(sm, keys, modelName) ==
    LET candidates == getAvailableServersForModel(sm, keys, modelName)
        freeCandidates == SelectSeq(candidates,
                                    LAMBDA s : sm[s].activeRequests = 0)
    IN  IF Len(freeCandidates) > 0 THEN freeCandidates[1] ELSE NoServer

incrementActiveRequests(sm, serverName) ==
    IF serverName \in DOMAIN sm
    THEN [sm EXCEPT ![serverName].activeRequests = @ + 1]
    ELSE sm

decrementActiveRequests(sm, serverName) ==
    IF serverName \in DOMAIN sm /\ sm[serverName].activeRequests > 0
    THEN [sm EXCEPT ![serverName].activeRequests = @ - 1]
    ELSE sm

\* The ServerStatus that initialize stores for every configured server.
InitialStatus ==
    [isOnline |-> FALSE, models |-> << >>, activeRequests |-> 0,
     lastChecked |-> 0]

\* The keys of statusMap after initialize's loop over the configuration.
RECURSIVE initializeKeys(_, _)
initializeKeys(servers, keys) ==
    IF servers = << >> THEN keys
    ELSE initializeKeys(Tail(servers), mapSetKeys(keys, Head(servers)))

\* A refreshCache call suspended at its fetch, with what its caller holds:
\* refreshPool's callback holds the server's name only; refreshServer holds the
\* ServerStatus object it read before the fetch.  live: that object is still the
\* value of statusMap; otherwise it was replaced by a later set, and act is the
\* activeRequests it had when it was replaced (nothing updates it afterwards).
PoolFetch(s) == [kind |-> "pool", srv |-> s, live |-> TRUE, act |-> 0]

ServerFetch(s) == [kind |-> "server", srv |-> s, live |-> TRUE, act |-> 0]

\* statusMap.set(s, ...) replaces the object of s: the refreshServer calls that
\* hold the replaced object keep it, with the count a it had.
replaceObject(bag, s, a) ==
    LET liveT == ServerFetch(s)
        deadT == [kind |-> "server", srv |-> s, live |-> FALSE, act |-> a]
        n == CopiesIn(liveT, bag)
    IN  IF n = 0 THEN bag
        ELSE [e \in BagToSet(bag) \ {liveT} |-> bag[e]] (+) [e \in {deadT} |-> n]

\* refreshPool, line 54: this.statusMap.get(server.name)?.activeRequests || 0
refreshPoolActiveRequests(sm, t) ==
    IF t.srv \in DOMAIN sm THEN sm[t.srv].activeRequests ELSE 0

\* refreshServer, line 74: server.activeRequests, of the object read at line 62
refreshServerActiveRequests(sm, t) ==
    IF t.live THEN sm[t.srv].activeRequests ELSE t.act

(***************************************************************************)
(* QueueService.                                                           *)
(***************************************************************************)
\* A variant that redirects a request whose named server is not free or does
\* not support the model to the best server for the model.
findServerForRequestRedirect(sm, keys, request) ==
    IF request.serverName # AnyServer
    THEN LET specific == getServer(sm, request.serverName)
         IN  IF /\ specific # NoServer
                /\ sm[specific].activeRequests = 0
                /\ serverSupportsModel(sm, specific, request.model)
             THEN specific
             ELSE getBestServerForModel(sm, keys, request.model)
    ELSE getBestServerForModel(sm, keys, request.model)

findServerForRequest(sm, keys, request) ==
    IF request.serverName # AnyServer
    THEN LET specific == getServer(sm, request.serverName)
         IN  IF /\ specific # NoServer
                /\ sm[specific].activeRequests = 0
                /\ serverSupportsModel(sm, specific, request.model)
             THEN specific
             ELSE NoServer
    ELSE getBestServerForModel(sm, keys, request.model)

\* An execution: a runRequest call suspended at its fetch.
Execution(id, server, request) ==
    [id |-> id, srv |-> server, request |-> request]

\* A variant of the loop that stops at the first item that finds no server.
RECURSIVE scanQueueHeadOfLine(_, _, _, _)
scanQueueHeadOfLine(items, sm, keys, acc) ==
    IF items = << >>
    THEN [statusMap |-> sm, remaining |-> acc.remaining, started |-> acc.started]
    ELSE LET item == Head(items)
             server == findServerForRequest(sm, keys, item.request)
         IN  IF server # NoServer
             THEN scanQueueHeadOfLine(Tail(items),
                                      incrementActiveRequests(sm, server), keys,
                                      [remaining |-> acc.remaining,
                                       started |-> acc.started
                                           \cup {Execution(item.id, server, item.request)}])
             ELSE [statusMap |-> sm, remaining |-> acc.remaining \o items,
                   started |-> acc.started]

\* A variant of the loop that looks every item up in the registry as it was
\* when the pass began.
RECURSIVE scanQueueStaleRegistry(_, _, _, _)
scanQueueStaleRegistry(items, sm, keys, acc) ==
    IF items = << >>
    THEN [statusMap |-> sm, remaining |-> acc.remaining, started |-> acc.started]
    ELSE LET item == Head(items)
             began == [s \in DOMAIN sm |->
                          [sm[s] EXCEPT !.activeRequests =
                              @ - Cardinality({e \in acc.started : e.srv = s})]]
             server == findServerForRequest(began, keys, item.request)
         IN  IF server # NoServer
             THEN scanQueueStaleRegistry(Tail(items),
                                         incrementActiveRequests(sm, server), keys,
                                         [remaining |-> acc.remaining,
                                          started |-> acc.started
                                              \cup {Execution(item.id, server, item.request)}])
             ELSE scanQueueStaleRegistry(Tail(items), sm, keys,
                                         [remaining |-> Append(acc.remaining, item),
                                          started |-> acc.started])

\* The loop of processQueue: executeRequest runs runRequest up to its fetch, so
\* the server's count is incremented before the next item is looked at.
RECURSIVE scanQueue(_, _, _, _)
scanQueue(items, sm, keys, acc) ==
    IF items = << >>
    THEN [statusMap |-> sm, remaining |-> acc.remaining, started |-> acc.started]
    ELSE LET item == Head(items)
             server == findServerForRequest(sm, keys, item.request)
         IN  IF server # NoServer
             THEN scanQueue(Tail(items), incrementActiveRequests(sm, server), keys,
                            [remaining |-> acc.remaining,
                             started |-> acc.started
                                 \cup {Execution(item.id, server, item.request)}])
             ELSE scanQueue(Tail(items), sm, keys,
                            [remaining |-> Append(acc.remaining, item),
                             started |-> acc.started])

\* A variant of processQueue whose guard is inverted: a call made while no pass
\* is running returns at once.
processQueueGuardInverted(q, sm, keys, processing) ==
    IF ~processing
    THEN [statusMap |-> sm, remaining |-> q, started |-> {}]
    ELSE scanQueue(q, sm, keys, [remaining |-> << >>, started |-> {}])

\* A variant of processQueue that starts the matched items and leaves the queue
\* as it was.
processQueueKeepsItems(q, sm, keys, processing) ==
    IF processing
    THEN [statusMap |-> sm, remaining |-> q, started |-> {}]
    ELSE LET r == scanQueue(q, sm, keys, [remaining |-> << >>, started |-> {}])
         IN  [statusMap |-> r.statusMap, remaining |-> q, started |-> r.started]

\* processQueue: the queue, the registry and the executions started by one call.
processQueue(q, sm, keys, processing) ==
    IF processing
    THEN [statusMap |-> sm, remaining |-> q, started |-> {}]
    ELSE scanQueue(q, sm, keys, [remaining |-> << >>, started |-> {}])

\* What the step just taken did: the operation, the request id it concerns, the
\* server, the HTTP status sent at once (0: none yet) and the executions started.
Observed(op, id, srv, code, started) ==
    [op |-> op, id |-> id, srv |-> srv, code |-> code, started |-> started]

\* The operations that submit a request, and those that end an execution.
SubmitOps == {"generateAny", "generateServer", "embed"}

SettleOps == {"complete", "fail"}

RefreshSetOps == {"refreshPool.set", "refreshServer.set"}

\* The requests the routes build.
Request(model, serverName, embedding) ==
    [model |-> model, serverName |-> serverName, embedding |-> embedding]

(***************************************************************************)
(* Start-up.                                                               *)
(***************************************************************************)
Init ==
    /\ statusMap = << >>
    /\ statusKeys = << >>
    /\ cache = [s \in Servers |-> NoEntry]
    /\ queue = << >>
    /\ isProcessing = FALSE
    /\ running = {}
    /\ fetching = EmptyBag
    /\ nextId = 1
    /\ reqCap = MaxReq
    /\ nRefresh = 0
    /\ phase = "new"
    /\ now = 1
    /\ awaitingBody = {}
    /\ history = << >>
    /\ returned = NoResult
    /\ last = Observed("construct", 0, NoServer, 0, {})

\* ServerPoolService.initialize up to the fetches of its refreshPool.
Initialize ==
    /\ phase = "new"
    /\ statusMap' = [s \in Servers |-> InitialStatus]
    /\ statusKeys' = initializeKeys(ConfigServers, statusKeys)
    /\ fetching' = SetToBag({PoolFetch(s) : s \in Servers})
    /\ phase' = "initializing"
    /\ last' = Observed("initialize", 0, NoServer, 0, {})
    /\ UNCHANGED <<awaitingBody, history, returned, cache, queue, isProcessing, running, nextId, reqCap, nRefresh, now>>

(***************************************************************************)
(* Refresh.                                                                *)
(***************************************************************************)
\* POST /servers/refresh: refreshPool up to its fetches.
RefreshPool ==
    /\ phase = "listening"
    /\ nRefresh < MaxRefresh
    /\ nRefresh' = nRefresh + 1
    /\ fetching' = fetching (+) SetToBag({PoolFetch(s) : s \in Servers})
    /\ last' = Observed("refreshPool", 0, NoServer, 0, {})
    /\ UNCHANGED <<awaitingBody, history, returned, statusMap, statusKeys, cache, queue, isProcessing, running,
                   nextId, reqCap, phase, now>>

\* A variant of refreshServer that answers an unknown name with a refresh of the
\* whole pool.
refreshServerFallsBackToPool(name) ==
    /\ phase = "listening"
    /\ IF name \notin DOMAIN statusMap
       THEN /\ fetching' = fetching (+) SetToBag({PoolFetch(s) : s \in Servers})
            /\ last' = Observed("refreshServer", 0, name, 0, {})
            /\ UNCHANGED nRefresh
       ELSE /\ nRefresh < MaxRefresh
            /\ nRefresh' = nRefresh + 1
            /\ fetching' = fetching (+) SetToBag({ServerFetch(name)})
            /\ last' = Observed("refreshServer", 0, name, 0, {})
    /\ UNCHANGED <<awaitingBody, history, returned, statusMap, statusKeys, cache, queue, isProcessing, running,
                   nextId, reqCap, phase, now>>

\* ServerPoolService.refreshServer up to its fetch: a name that statusMap does
\* not hold throws before anything is fetched or set.
refreshServer(name) ==
    /\ phase = "listening"
    /\ IF name \notin DOMAIN statusMap
       THEN /\ last' = Observed("refreshServer.throw", 0, name, 0, {})
            /\ UNCHANGED <<fetching, nRefresh>>
       ELSE /\ nRefresh < MaxRefresh
            /\ nRefresh' = nRefresh + 1
            /\ fetching' = fetching (+) SetToBag({ServerFetch(name)})
            /\ last' = Observed("refreshServer", 0, name, 0, {})
    /\ UNCHANGED <<awaitingBody, history, returned, statusMap, statusKeys, cache, queue, isProcessing, running,
                   nextId, reqCap, phase, now>>

\* POST /servers/:name/refresh: the route's check, then refreshServer.
RefreshServer(name) ==
    /\ phase = "listening"
    /\ IF getServer(statusMap, name) = NoServer
       THEN /\ last' = Observed("refreshServer", 0, name, 404, {})
            /\ UNCHANGED <<awaitingBody, history, returned, statusMap, statusKeys, cache, queue, isProcessing,
                           running, fetching, nextId, reqCap, nRefresh, phase, now>>
       ELSE refreshServer(name)

\* A variant of the record in which the server is online whenever the fetch
\* succeeded, whatever it listed.
refreshedStatusOnlineIfFetched(sm, c, t, outcome, time) ==
    LET models == refreshCacheResult(c, t.srv, outcome)
    IN  [isOnline |-> outcome.ok,
         models |-> models,
         activeRequests |-> IF t.kind = "pool"
                            THEN refreshPoolActiveRequests(sm, t)
                            ELSE refreshServerActiveRequests(sm, t),
         lastChecked |-> time]

\* The record a refresh stores once refreshCache has returned.
refreshedStatus(sm, c, t, outcome, time) ==
    LET models == refreshCacheResult(c, t.srv, outcome)
    IN  [isOnline |-> Len(models) > 0,
         models |-> models,
         activeRequests |-> IF t.kind = "pool"
                            THEN refreshPoolActiveRequests(sm, t)
                            ELSE refreshServerActiveRequests(sm, t),
         lastChecked |-> time]

\* The fetch of one refreshCache call ends: refreshCache stores and returns, and
\* its caller (refreshPool's callback or refreshServer) sets the status.
FetchDone(t, outcome) ==
    /\ t \in BagToSet(fetching)
    /\ cache' = refreshCacheStore(cache, t.srv, outcome, now)
    /\ statusMap' = [statusMap EXCEPT
                       ![t.srv] = refreshedStatus(statusMap, cache, t, outcome, now)]
    /\ statusKeys' = mapSetKeys(statusKeys, t.srv)
    /\ fetching' = replaceObject(fetching (-) SetToBag({t}), t.srv,
                                 statusMap[t.srv].activeRequests)
    /\ phase' = IF phase = "initializing" /\ BagToSet(fetching') = {}
                THEN "listening" ELSE phase
    /\ last' = Observed(IF t.kind = "pool" THEN "refreshPool.set"
                        ELSE "refreshServer.set", 0, t.srv, 0, {})
    /\ UNCHANGED <<awaitingBody, history, returned, queue, isProcessing, running, nextId, reqCap, nRefresh, now>>

(***************************************************************************)
(* Submission.                                                             *)
(***************************************************************************)
\* A variant of enqueue that puts the item at the front of the queue.
enqueueFront(request, op) ==
    LET item == [id |-> nextId, request |-> request, createdAt |-> now]
        r == processQueue(<<item>> \o queue, statusMap, statusKeys, isProcessing)
    IN  /\ nextId <= reqCap
        /\ nextId' = nextId + 1
        /\ statusMap' = r.statusMap
        /\ queue' = r.remaining
        /\ running' = running \cup r.started
        /\ isProcessing' = FALSE
        /\ last' = Observed(op, nextId, NoServer, 0, r.started)
        /\ UNCHANGED <<awaitingBody, history, returned, statusKeys, cache, fetching, reqCap, nRefresh, phase, now>>

\* QueueService.enqueue: push, then processQueue.
enqueue(request, op) ==
    LET item == [id |-> nextId, request |-> request, createdAt |-> now]
        r == processQueue(Append(queue, item), statusMap, statusKeys, isProcessing)
    IN  /\ nextId <= reqCap
        /\ nextId' = nextId + 1
        /\ statusMap' = r.statusMap
        /\ queue' = r.remaining
        /\ running' = running \cup r.started
        /\ isProcessing' = FALSE
        /\ last' = Observed(op, nextId, NoServer, 0, r.started)
        /\ UNCHANGED <<awaitingBody, history, returned, statusKeys, cache, fetching, reqCap, nRefresh, phase, now>>

\* A variant of dispatchOrQueue whose immediate path takes the last free server
\* that hosts the model, whatever server the request names.
dispatchOrQueueLastFree(request, op) ==
    LET server == getBestServerForModelLast(statusMap, statusKeys, request.model)
    IN  IF server # NoServer
        THEN /\ nextId <= reqCap
             /\ nextId' = nextId + 1
             /\ statusMap' = incrementActiveRequests(statusMap, server)
             /\ running' = running \cup {Execution(nextId, server, request)}
             /\ last' = Observed(op, nextId, server, 0,
                                 {Execution(nextId, server, request)})
             /\ UNCHANGED <<awaitingBody, history, returned, statusKeys, cache, queue,
                            isProcessing, fetching, reqCap, nRefresh, phase, now>>
        ELSE enqueue(request, op)

\* QueueService.dispatchOrQueue.
dispatchOrQueue(request, op) ==
    LET server == findServerForRequest(statusMap, statusKeys, request)
    IN  IF server # NoServer
        THEN /\ nextId <= reqCap
             /\ nextId' = nextId + 1
             /\ statusMap' = incrementActiveRequests(statusMap, server)
             /\ running' = running \cup {Execution(nextId, server, request)}
             /\ last' = Observed(op, nextId, server, 0,
                                 {Execution(nextId, server, request)})
             /\ UNCHANGED <<awaitingBody, history, returned, statusKeys, cache, queue, isProcessing, fetching,
                            reqCap, nRefresh, phase, now>>
        ELSE enqueue(request, op)

\* A route answers at once with an error status and calls nothing.
reject(op, srv, code) ==
    /\ last' = Observed(op, 0, srv, code, {})
    /\ UNCHANGED <<awaitingBody, history, returned, statusMap, statusKeys, cache, queue, isProcessing, running,
                   fetching, nextId, reqCap, nRefresh, phase, now>>

\* A variant of the routes' check that lets every model through.
ensureModelAvailableAlways(modelName) == TRUE

ensureModelAvailable(modelName) ==
    Len(getAvailableServersForModel(statusMap, statusKeys, modelName)) # 0

\* POST /generate/any
GenerateAny(model) ==
    /\ phase = "listening"
    /\ IF ~ensureModelAvailable(model)
       THEN reject("generateAny", NoServer, 503)
       ELSE dispatchOrQueue(Request(model, AnyServer, FALSE), "generateAny")

\* A variant of POST /generate/server without the serverSupportsModel check.
GenerateServerUnchecked(serverName, model) ==
    /\ phase = "listening"
    /\ IF getServer(statusMap, serverName) = NoServer
       THEN reject("generateServer", serverName, 404)
       ELSE dispatchOrQueue(Request(model, serverName, FALSE), "generateServer")

\* POST /generate/server
GenerateServer(serverName, model) ==
    /\ phase = "listening"
    /\ IF getServer(statusMap, serverName) = NoServer
       THEN reject("generateServer", serverName, 404)
       ELSE IF ~serverSupportsModel(statusMap, serverName, model)
       THEN reject("generateServer", serverName, 503)
       ELSE dispatchOrQueue(Request(model, serverName, FALSE), "generateServer")

\* POST /embed
Embed(model) ==
    /\ phase = "listening"
    /\ IF ~ensureModelAvailable(model)
       THEN reject("embed", NoServer, 503)
       ELSE dispatchOrQueue(Request(model, AnyServer, TRUE), "embed")

(***************************************************************************)
(* Settlement.                                                             *)
(***************************************************************************)
\* A variant of runRequest whose finally block decrements the count and does not
\* call processQueue.
settleWithoutScan(e, op) ==
    /\ e \in running
    /\ statusMap' = decrementActiveRequests(statusMap, e.srv)
    /\ running' = running \ {e}
    /\ isProcessing' = FALSE
    /\ awaitingBody' = awaitingBody \ {e.id}
    /\ last' = Observed(op, e.id, e.srv, 0, {})
    /\ UNCHANGED <<queue, statusKeys, cache, fetching, nextId, reqCap, nRefresh, phase, now>>

\* runRequest's finally block: it decrements the server's count and calls
\* processQueue.  What the call wrote to the history and what it returned is
\* left to the action that ends the execution.
settle(e, op) ==
    LET r == processQueue(queue, decrementActiveRequests(statusMap, e.srv),
                          statusKeys, isProcessing)
    IN  /\ e \in running
        /\ statusMap' = r.statusMap
        /\ queue' = r.remaining
        /\ running' = (running \ {e}) \cup r.started
        /\ isProcessing' = FALSE
        /\ awaitingBody' = awaitingBody \ {e.id}
        /\ last' = Observed(op, e.id, e.srv, 0, r.started)
        /\ UNCHANGED <<statusKeys, cache, fetching, nextId, reqCap, nRefresh, phase, now>>

\* The backend answers 2xx with a JSON body: the request resolves.  The two
\* awaits are taken as one step and the reply's content is left out: the runs
\* that follow the reply and the history are those of ExecSpec.
Complete(e) == settle(e, "complete") /\ UNCHANGED <<history, returned>>

\* A variant of the failure path that puts the failed request back at the end of
\* the queue before the scan.
FailRequeue(e) ==
    LET item == [id |-> e.id, request |-> e.request, createdAt |-> now]
        r == processQueue(Append(queue, item),
                          decrementActiveRequests(statusMap, e.srv),
                          statusKeys, isProcessing)
    IN  /\ e \in running
        /\ statusMap' = r.statusMap
        /\ queue' = r.remaining
        /\ running' = (running \ {e}) \cup r.started
        /\ isProcessing' = FALSE
        /\ awaitingBody' = awaitingBody \ {e.id}
        /\ last' = Observed("fail", e.id, e.srv, 0, r.started)
        /\ UNCHANGED <<history, returned, statusKeys, cache, fetching, nextId, reqCap, nRefresh, phase, now>>

\* The backend call fails (timeout, non-2xx, network error): the request rejects.
Fail(e) == settle(e, "fail") /\ UNCHANGED <<history, returned>>

(***************************************************************************)
(* The specification.                                                      *)
(***************************************************************************)
Next ==
    \/ Initialize
    \/ RefreshPool
    \/ \E name \in Servers : RefreshServer(name)
    \/ \E t \in BagToSet(fetching), outcome \in FetchOutcomes : FetchDone(t, outcome)
    \/ \E model \in RequestModels : GenerateAny(model)
    \/ \E name \in Servers, model \in RequestModels : GenerateServer(name, model)
    \/ \E model \in RequestModels : Embed(model)
    \/ \E e \in running : Complete(e)
    \/ \E e \in running : Fail(e)

Spec == Init /\ [][Next]_vars

\* The runs in which nobody calls the refresh routes and every request is a
\* wildcard request: the registry is what initialize's refreshPool made it.
InitNoRefresh ==
    /\ statusMap = << >>
    /\ statusKeys = << >>
    /\ cache = [s \in Servers |-> NoEntry]
    /\ queue = << >>
    /\ isProcessing = FALSE
    /\ running = {}
    /\ fetching = EmptyBag
    /\ nextId = 1
    /\ reqCap = MaxReqNoRefresh
    /\ nRefresh = 0
    /\ phase = "new"
    /\ now = 1
    /\ awaitingBody = {}
    /\ history = << >>
    /\ returned = NoResult
    /\ last = Observed("construct", 0, NoServer, 0, {})

NextNoRefresh ==
    \/ Initialize
    \/ \E t \in BagToSet(fetching), outcome \in FetchOutcomes : FetchDone(t, outcome)
    \/ \E model \in RequestModels : GenerateAny(model)
    \/ \E model \in RequestModels : Embed(model)
    \/ \E e \in running : Complete(e)
    \/ \E e \in running : Fail(e)

NoRefreshSpec == InitNoRefresh /\ [][NextNoRefresh]_vars


\* The runs in which nobody calls the refresh routes and requests may name a
\* server: the queue can hold a blocked request in front of a servable one.
InitQueue ==
    /\ statusMap = << >>
    /\ statusKeys = << >>
    /\ cache = [s \in Servers |-> NoEntry]
    /\ queue = << >>
    /\ isProcessing = FALSE
    /\ running = {}
    /\ fetching = EmptyBag
    /\ nextId = 1
    /\ reqCap = MaxReqQueue
    /\ nRefresh = 0
    /\ phase = "new"
    /\ now = 1
    /\ awaitingBody = {}
    /\ history = << >>
    /\ returned = NoResult
    /\ last = Observed("construct", 0, NoServer, 0, {})

NextQueue ==
    \/ Initialize
    \/ \E t \in BagToSet(fetching), outcome \in FetchOutcomes : FetchDone(t, outcome)
    \/ \E model \in RequestModels : GenerateAny(model)
    \/ \E name \in Servers, model \in RequestModels : GenerateServer(name, model)
    \/ \E e \in running : Complete(e)
    \/ \E e \in running : Fail(e)

QueueSpec == InitQueue /\ [][NextQueue]_vars

\* The registry on its own: the refresh routes called in any order, for names
\* the configuration has and for one it has not, and refreshServer called by
\* name; no request is submitted.
UnknownServer == "c"

RefreshNames == Servers \cup {UnknownServer}

NextPool ==
    \/ Initialize
    \/ RefreshPool
    \/ \E name \in RefreshNames : RefreshServer(name)
    \/ \E name \in RefreshNames : refreshServer(name)
    \/ \E t \in BagToSet(fetching), outcome \in FetchOutcomes : FetchDone(t, outcome)

PoolSpec == Init /\ [][NextPool]_vars

\* The runs in which every fetch of a refresh succeeds and lists the same model:
\* once initialize has returned, every server stays online and keeps hosting it.
SteadyOutcome == [ok |-> TRUE, models |-> <<NameMLatest>>]

NextSteady ==
    \/ Initialize
    \/ RefreshPool
    \/ \E name \in Servers : RefreshServer(name)
    \/ \E t \in BagToSet(fetching) : FetchDone(t, SteadyOutcome)
    \/ \E model \in RequestModels : GenerateAny(model)
    \/ \E name \in Servers, model \in RequestModels : GenerateServer(name, model)
    \/ \E e \in running : Complete(e)
    \/ \E e \in running : Fail(e)

SteadySpec == Init /\ [][NextSteady]_vars

\* A variant of dispatchDirect that goes through the availability checks of
\* dispatchOrQueue.
DispatchDirectChecked(serverName, model) ==
    /\ phase = "listening"
    /\ dispatchOrQueue(Request(model, serverName, FALSE), "dispatchDirect")

\* QueueService.dispatchDirect with the ServerStatus of a configured server:
\* runRequest up to its fetch.
DispatchDirect(serverName, model) ==
    LET request == Request(model, serverName, FALSE)
    IN  /\ phase = "listening"
        /\ nextId <= reqCap
        /\ nextId' = nextId + 1
        /\ statusMap' = incrementActiveRequests(statusMap, serverName)
        /\ running' = running \cup {Execution(nextId, serverName, request)}
        /\ last' = Observed("dispatchDirect", nextId, serverName, 0,
                            {Execution(nextId, serverName, request)})
        /\ UNCHANGED <<awaitingBody, history, returned, statusKeys, cache, queue,
                       isProcessing, fetching, reqCap, nRefresh, phase, now>>

\* The runs in which dispatchDirect is called next to the routes, and nobody
\* calls the refresh routes.
InitDirect ==
    /\ statusMap = << >>
    /\ statusKeys = << >>
    /\ cache = [s \in Servers |-> NoEntry]
    /\ queue = << >>
    /\ isProcessing = FALSE
    /\ running = {}
    /\ fetching = EmptyBag
    /\ nextId = 1
    /\ reqCap = MaxReqDirect
    /\ nRefresh = 0
    /\ phase = "new"
    /\ now = 1
    /\ awaitingBody = {}
    /\ history = << >>
    /\ returned = NoResult
    /\ last = Observed("construct", 0, NoServer, 0, {})

NextDirect ==
    \/ Initialize
    \/ \E t \in BagToSet(fetching), outcome \in FetchOutcomes : FetchDone(t, outcome)
    \/ \E model \in RequestModels : GenerateAny(model)
    \/ \E name \in Servers, model \in RequestModels : GenerateServer(name, model)
    \/ \E name \in Servers, model \in RequestModels : DispatchDirect(name, model)
    \/ \E e \in running : Complete(e)
    \/ \E e \in running : Fail(e)

DirectSpec == InitDirect /\ [][NextDirect]_vars

\* The runs of wildcard requests in which single servers are refreshed: a
\* server can come online while a request waits for another one.
InitWildcard ==
    /\ statusMap = << >>
    /\ statusKeys = << >>
    /\ cache = [s \in Servers |-> NoEntry]
    /\ queue = << >>
    /\ isProcessing = FALSE
    /\ running = {}
    /\ fetching = EmptyBag
    /\ nextId = 1
    /\ reqCap = MaxReqWildcard
    /\ nRefresh = 0
    /\ phase = "new"
    /\ now = 1
    /\ awaitingBody = {}
    /\ history = << >>
    /\ returned = NoResult
    /\ last = Observed("construct", 0, NoServer, 0, {})

NextWildcard ==
    \/ Initialize
    \/ \E name \in Servers : RefreshServer(name)
    \/ \E t \in BagToSet(fetching), outcome \in FetchOutcomes : FetchDone(t, outcome)
    \/ \E model \in RequestModels : GenerateAny(model)
    \/ \E e \in running : Complete(e)
    \/ \E e \in running : Fail(e)

WildcardSpec == InitWildcard /\ [][NextWildcard]_vars

(***************************************************************************)
(* POST /generate/batch.                                                   *)
(***************************************************************************)
\* The models a batch can list, and the lists.
BatchModels == {NameM, NameM7}

BatchLists == UNION {[1..k -> BatchModels] : k \in 0..MaxBatch}

\* body.models.filter(...): the first occurrences of the models that no
\* available server hosts.
RECURSIVE missingModels(_, _, _)
missingModels(models, idx, acc) ==
    IF idx > Len(models) THEN acc
    ELSE missingModels(models, idx + 1,
             IF \E j \in 1..(idx - 1) : models[j] = models[idx] THEN acc
             ELSE IF Len(getAvailableServersForModel(statusMap, statusKeys,
                                                     models[idx])) = 0
             THEN Append(acc, models[idx])
             ELSE acc)

\* One call of dispatchOrQueue made by the map callback, on the registry, the
\* queue and the executions the earlier calls have left.
dispatchOrQueueIn(st, request) ==
    LET server == findServerForRequest(st.statusMap, statusKeys, request)
        item == [id |-> st.nextId, request |-> request, createdAt |-> now]
        r == processQueue(Append(st.queue, item), st.statusMap, statusKeys,
                          isProcessing)
    IN  IF server # NoServer
        THEN [statusMap |-> incrementActiveRequests(st.statusMap, server),
              queue |-> st.queue,
              running |-> st.running
                              \cup {Execution(st.nextId, server, request)},
              nextId |-> st.nextId + 1]
        ELSE [statusMap |-> r.statusMap,
              queue |-> r.remaining,
              running |-> st.running \cup r.started,
              nextId |-> st.nextId + 1]

\* body.models.map(model => QueueService.dispatchOrQueue(...)): the calls run
\* one after the other, each up to its first await.
RECURSIVE dispatchEach(_, _)
dispatchEach(models, st) ==
    IF models = << >> THEN st
    ELSE dispatchEach(Tail(models),
                      dispatchOrQueueIn(st, Request(Head(models), AnyServer,
                                                    FALSE)))

\* POST /generate/batch
GenerateBatch(models) ==
    /\ phase = "listening"
    /\ IF missingModels(models, 1, << >>) # << >>
       THEN reject("generateBatch", NoServer, 503)
       ELSE LET r == dispatchEach(models, [statusMap |-> statusMap,
                                           queue |-> queue,
                                           running |-> running,
                                           nextId |-> nextId])
            IN  /\ r.nextId - 1 <= reqCap
                /\ nextId' = r.nextId
                /\ statusMap' = r.statusMap
                /\ queue' = r.queue
                /\ running' = r.running
                /\ isProcessing' = FALSE
                /\ last' = Observed("generateBatch", nextId, NoServer, 0,
                                    r.running \ running)
                /\ UNCHANGED <<awaitingBody, history, returned, statusKeys,
                               cache, fetching, reqCap, nRefresh, phase, now>>

\* The runs with one batch, next to refreshes of single servers.
InitBatch ==
    /\ statusMap = << >>
    /\ statusKeys = << >>
    /\ cache = [s \in Servers |-> NoEntry]
    /\ queue = << >>
    /\ isProcessing = FALSE
    /\ running = {}
    /\ fetching = EmptyBag
    /\ nextId = 1
    /\ reqCap = MaxBatch
    /\ nRefresh = 0
    /\ phase = "new"
    /\ now = 1
    /\ awaitingBody = {}
    /\ history = << >>
    /\ returned = NoResult
    /\ last = Observed("construct", 0, NoServer, 0, {})

NextBatch ==
    \/ Initialize
    \/ \E name \in Servers : RefreshServer(name)
    \/ \E t \in BagToSet(fetching), outcome \in FetchOutcomes : FetchDone(t, outcome)
    \/ \E models \in BatchLists : nextId = 1 /\ GenerateBatch(models)
    \/ \E e \in running : Complete(e)
    \/ \E e \in running : Fail(e)

BatchSpec == InitBatch /\ [][NextBatch]_vars

(***************************************************************************)
(* runRequest from its fetch on: the status line, the body, the history    *)
(* write and the value returned.                                           *)
(***************************************************************************)
\* The JavaScript values a field of the reply's JSON body can have.
JSNull == [type |-> "null", value |-> << >>]

JSString(text) == [type |-> "string", value |-> text]

JSArray(elements) == [type |-> "array", value |-> elements]

\* A generated text and an embedding vector.
Text == <<"o", "k">>

Vector == <<"1", "2">>

\* The body is the JSON value null.
NullBody == [isNull |-> TRUE, response |-> JSNull, embedding |-> JSNull]

\* The bodies a backend can send with a 2xx status.
Bodies ==
    {NullBody} \cup
    {[isNull |-> FALSE, response |-> r, embedding |-> v] :
        r \in {JSNull, JSString(<< >>), JSString(Text)},
        v \in {JSNull, JSArray(<< >>), JSArray(Vector)}}

\* JavaScript's truthiness: the empty string is falsy, every array is truthy.
truthy(v) == v.type = "array" \/ (v.type = "string" /\ v.value # << >>)

RECURSIVE joinComma(_)
joinComma(elements) ==
    IF elements = << >> THEN << >>
    ELSE IF Len(elements) = 1 THEN <<elements[1]>>
    ELSE <<elements[1], ",">> \o joinComma(Tail(elements))

\* JSON.stringify of an array of numbers.
stringify(v) == <<"[">> \o joinComma(v.value) \o <<"]">>

\* line 134: data?.response != null || data?.embedding != null
hasResponse(data) == data.response.type # "null" \/ data.embedding.type # "null"

\* line 137: data.response || (data.embedding ? JSON.stringify(data.embedding) : '')
responseText(data) ==
    IF truthy(data.response) THEN data.response.value
    ELSE IF truthy(data.embedding) THEN stringify(data.embedding)
    ELSE << >>

\* The PromptResponse runRequest builds.
PromptResponse(e, data) ==
    [response |-> responseText(data), serverName |-> e.srv,
     model |-> e.request.model]

\* The row runRequest hands to DbService.insertPromptHistory; the request's id
\* stands for its prompt, thrown tells whether the call threw.
HistoryRow(e, res, thrown) ==
    [prompt |-> e.id, serverName |-> e.srv, modelName |-> e.request.model,
     responseText |-> res.response, thrown |-> thrown]

\* The timer of line 117 is set and not cleared: clearTimeout runs as soon as
\* the fetch has resolved.
timeoutPending(e) == e \in running /\ e.id \notin awaitingBody

\* The operations that end an execution with a rejection.
FailOps == {"fail", "timeout"}

\* The fetch resolves with the status line and the headers: the timer is
\* cleared, a status that is not 2xx throws, otherwise runRequest awaits
\* response.json().
BackendResponds(e, ok) ==
    /\ e \in running
    /\ e.id \notin awaitingBody
    /\ IF ok
       THEN /\ awaitingBody' = awaitingBody \cup {e.id}
            /\ last' = Observed("headers", e.id, e.srv, 0, {})
            /\ UNCHANGED <<statusMap, statusKeys, cache, queue, isProcessing,
                           running, fetching, nextId, reqCap, nRefresh, phase,
                           now, history, returned>>
       ELSE settle(e, "fail") /\ UNCHANGED <<history, returned>>

\* The fetch rejects: the backend cannot be reached.
BackendUnreachable(e) ==
    /\ e.id \notin awaitingBody
    /\ settle(e, "fail")
    /\ UNCHANGED <<history, returned>>

\* The timer fires: controller.abort() rejects the fetch.
HardTimeout(e) ==
    /\ timeoutPending(e)
    /\ settle(e, "timeout")
    /\ UNCHANGED <<history, returned>>

\* A variant of the rest of the try block without the try/catch around the
\* history write: the write's exception reaches runRequest's catch block.
BodyParsedWriteEscapes(e, data, dbThrows) ==
    /\ e.id \in awaitingBody
    /\ dbThrows => hasResponse(data)
    /\ IF data.isNull \/ dbThrows
       THEN /\ settle(e, "fail")
            /\ history' = IF dbThrows
                          THEN Append(history,
                                      HistoryRow(e, PromptResponse(e, data), TRUE))
                          ELSE history
            /\ UNCHANGED returned
       ELSE /\ settle(e, "complete")
            /\ returned' = PromptResponse(e, data)
            /\ history' = IF hasResponse(data)
                          THEN Append(history, HistoryRow(e, returned', FALSE))
                          ELSE history

\* response.json() resolves with the parsed body: the rest of the try block.
\* Reading data.response of a null body throws a TypeError.
BodyParsed(e, data, dbThrows) ==
    /\ e.id \in awaitingBody
    /\ dbThrows => hasResponse(data)
    /\ IF data.isNull
       THEN settle(e, "fail") /\ UNCHANGED <<history, returned>>
       ELSE /\ settle(e, "complete")
            /\ returned' = PromptResponse(e, data)
            /\ history' = IF hasResponse(data)
                          THEN Append(history, HistoryRow(e, returned', dbThrows))
                          ELSE history

\* response.json() rejects: the body is not JSON or the connection breaks.
BodyFails(e) ==
    /\ e.id \in awaitingBody
    /\ settle(e, "fail")
    /\ UNCHANGED <<history, returned>>

InitExec ==
    /\ statusMap = << >>
    /\ statusKeys = << >>
    /\ cache = [s \in Servers |-> NoEntry]
    /\ queue = << >>
    /\ isProcessing = FALSE
    /\ running = {}
    /\ fetching = EmptyBag
    /\ nextId = 1
    /\ reqCap = MaxReqExec
    /\ nRefresh = 0
    /\ phase = "new"
    /\ now = 1
    /\ awaitingBody = {}
    /\ history = << >>
    /\ returned = NoResult
    /\ last = Observed("construct", 0, NoServer, 0, {})

NextExec ==
    \/ Initialize
    \/ \E t \in BagToSet(fetching), outcome \in FetchOutcomes : FetchDone(t, outcome)
    \/ \E model \in RequestModels : GenerateAny(model)
    \/ \E name \in Servers, model \in RequestModels : GenerateServer(name, model)
    \/ \E model \in RequestModels : Embed(model)
    \/ \E e \in running, ok \in BOOLEAN : BackendResponds(e, ok)
    \/ \E e \in running : BackendUnreachable(e)
    \/ \E e \in running : HardTimeout(e)
    \/ \E e \in running, data \in Bodies, dbThrows \in BOOLEAN :
           BodyParsed(e, data, dbThrows)
    \/ \E e \in running : BodyFails(e)

ExecSpec == InitExec /\ [][NextExec]_vars


(***************************************************************************)
(* ModelCacheService on its own: getModels, refreshCache and clearCache    *)
(* called in any order for the base URLs of the configured servers, with   *)
(* the clock moving between the calls.  A base URL is named by its server. *)
(* nRefresh counts the calls made.                                         *)
(***************************************************************************)
\* private static readonly TTL_MS = 60 * 1000
TTL_MS == 60000

\* The values Date.now() takes: around one and two TTLs after the first.
Instants == {1, TTL_MS, TTL_MS + 1, 2 * TTL_MS, 2 * TTL_MS + 1}

\* What a step of the cache did: the method, the base URL, whether the call
\* went to the network, whether the fetch succeeded and the list returned.
CacheObserved(op, url, fetched, ok, models) ==
    [op |-> op, srv |-> url, fetched |-> fetched, ok |-> ok, models |-> models]

\* A call suspended at the fetch of refreshCache, entered through kind.
CacheFetch(kind, url) == [kind |-> kind, srv |-> url]

InitCache ==
    /\ statusMap = << >>
    /\ statusKeys = << >>
    /\ cache = [s \in Servers |-> NoEntry]
    /\ queue = << >>
    /\ isProcessing = FALSE
    /\ running = {}
    /\ fetching = EmptyBag
    /\ nextId = 1
    /\ reqCap = 0
    /\ nRefresh = 0
    /\ phase = "cache"
    /\ now = 1
    /\ awaitingBody = {}
    /\ history = << >>
    /\ returned = NoResult
    /\ last = CacheObserved("construct", NoServer, FALSE, FALSE, << >>)

\* Time passes.
Tick(t) ==
    /\ t \in Instants
    /\ t > now
    /\ now' = t
    /\ last' = CacheObserved("tick", NoServer, FALSE, FALSE, << >>)
    /\ UNCHANGED <<awaitingBody, history, returned, statusMap, statusKeys, cache, queue, isProcessing, running,
                   fetching, nextId, reqCap, nRefresh, phase>>

\* A variant of the age test that still takes an entry of age TTL_MS as fresh.
isFreshInclusive(c, url, t) == c[url].present /\ t - c[url].timestamp <= TTL_MS

\* getModels, line 190: the entry exists and is younger than the TTL.
isFresh(c, url, t) == c[url].present /\ t - c[url].timestamp < TTL_MS

\* refreshCache up to its fetch.
startFetch(kind, url) ==
    /\ fetching' = fetching (+) SetToBag({CacheFetch(kind, url)})
    /\ last' = CacheObserved(kind, url, TRUE, FALSE, << >>)
    /\ UNCHANGED cache

\* ModelCacheService.getModels: answers from the entry or goes on to refreshCache.
GetModels(url) ==
    /\ nRefresh < MaxCacheCalls
    /\ nRefresh' = nRefresh + 1
    /\ IF isFresh(cache, url, now)
       THEN /\ last' = CacheObserved("getModels", url, FALSE, FALSE, cache[url].models)
            /\ UNCHANGED <<cache, fetching>>
       ELSE startFetch("getModels", url)
    /\ UNCHANGED <<awaitingBody, history, returned, statusMap, statusKeys, queue, isProcessing, running, nextId,
                   reqCap, phase, now>>

\* ModelCacheService.refreshCache, called directly.
RefreshCache(url) ==
    /\ nRefresh < MaxCacheCalls
    /\ nRefresh' = nRefresh + 1
    /\ startFetch("refreshCache", url)
    /\ UNCHANGED <<awaitingBody, history, returned, statusMap, statusKeys, queue, isProcessing, running, nextId,
                   reqCap, phase, now>>

\* refreshCache from the end of its fetch: store on success, return.
CacheFetchDone(t, outcome) ==
    /\ t \in BagToSet(fetching)
    /\ fetching' = fetching (-) SetToBag({t})
    /\ cache' = refreshCacheStore(cache, t.srv, outcome, now)
    /\ last' = CacheObserved(IF t.kind = "getModels" THEN "getModels.return"
                             ELSE "refreshCache.return",
                             t.srv, TRUE, outcome.ok,
                             refreshCacheResult(cache, t.srv, outcome))
    /\ UNCHANGED <<awaitingBody, history, returned, statusMap, statusKeys, queue, isProcessing, running, nextId,
                   reqCap, nRefresh, phase, now>>

\* ModelCacheService.clearCache.
ClearCache(url) ==
    /\ nRefresh < MaxCacheCalls
    /\ nRefresh' = nRefresh + 1
    /\ cache' = [cache EXCEPT ![url] = NoEntry]
    /\ last' = CacheObserved("clearCache", url, FALSE, FALSE, << >>)
    /\ UNCHANGED <<awaitingBody, history, returned, statusMap, statusKeys, queue, isProcessing, running, fetching,
                   nextId, reqCap, phase, now>>

NextCache ==
    \/ \E t \in Instants : Tick(t)
    \/ \E url \in Servers : GetModels(url)
    \/ \E url \in Servers : RefreshCache(url)
    \/ \E t \in BagToSet(fetching), outcome \in FetchOutcomes : CacheFetchDone(t, outcome)
    \/ \E url \in Servers : ClearCache(url)

CacheSpec == InitCache /\ [][NextCache]_vars

(***************************************************************************)
(* modelMatches on its own, applied to every pair of names over a small    *)
(* alphabet that holds the separator.                                      *)
(***************************************************************************)
Alphabet == {"m", Colon, "7"}

\* The names of at most MaxNameLen characters, and the name with the default tag.
Names ==
    UNION {[1..k -> Alphabet] : k \in 0..MaxNameLen} \cup {NameMLatest}

\* The pair of names a call is made with, and then what the call returned.
MatchObserved(op, availableModel, requestedModel, result) ==
    [op |-> op, availableModel |-> availableModel,
     requestedModel |-> requestedModel, result |-> result]

InitMatch ==
    /\ statusMap = << >>
    /\ statusKeys = << >>
    /\ cache = [s \in Servers |-> NoEntry]
    /\ queue = << >>
    /\ isProcessing = FALSE
    /\ running = {}
    /\ fetching = EmptyBag
    /\ nextId = 1
    /\ reqCap = 0
    /\ nRefresh = 0
    /\ phase = "match"
    /\ now = 1
    /\ awaitingBody = {}
    /\ history = << >>
    /\ returned = NoResult
    /\ \E x \in Names, y \in Names : last = MatchObserved("names", x, y, FALSE)

\* ServerPoolService.modelMatches is called with the pair.
ModelMatches ==
    /\ last.op = "names"
    /\ last' = MatchObserved("modelMatches", last.availableModel,
                             last.requestedModel,
                             modelMatches(last.availableModel, last.requestedModel))
    /\ UNCHANGED <<awaitingBody, history, returned, statusMap, statusKeys, cache, queue, isProcessing, running,
                   fetching, nextId, reqCap, nRefresh, phase, now>>

NextMatch == ModelMatches

MatchSpec == InitMatch /\ [][NextMatch]_vars

(***************************************************************************)
(* runRequest up to its fetch: the endpoint and the payload it builds from *)
(* the request, for every parameter set the routes' schema lets through    *)
(* (params is z.record(z.any())).  Every value is written as the sequence  *)
(* of its characters, as the model names are.                              *)
(***************************************************************************)
\* The prompt of the request, and a prompt given among the parameters.
Prompt == <<"p">>

ParamPrompt == <<"q">>

\* JSON true and false.
JSTrue == <<"t", "r", "u", "e">>

JSFalse == <<"f", "a", "l", "s", "e">>

\* The values a parameter can have; a key may also be absent.
ParamValues ==
    [temperature |-> {<<"0">>, <<"1">>},
     embedding |-> {JSTrue, JSFalse},
     stream |-> {JSTrue, JSFalse},
     model |-> {NameM7},
     prompt |-> {ParamPrompt}]

\* The parameter sets: for every subset of the keys, every choice of values.
ParamSets ==
    UNION {{p \in [keys -> UNION {ParamValues[k] : k \in keys}] :
               \A k \in keys : p[k] \in ParamValues[k]} :
           keys \in SUBSET (DOMAIN ParamValues)}

\* The PromptRequest runRequest is given.
PromptRequest(model, prompt, params) ==
    [model |-> model, prompt |-> prompt, params |-> params]

\* JavaScript's truthiness of a parameter: absent and false are falsy.
paramTruthy(params, key) == key \in DOMAIN params /\ params[key] # JSFalse

\* line 104
endpoint(request) ==
    IF paramTruthy(request.params, "embedding") THEN "/api/embeddings"
    ELSE "/api/generate"

\* A variant of the payload in which the fixed fields come after the spread of
\* the parameters, so that no parameter replaces them.
payloadFixedFieldsLast(request) ==
    LET fixed == [model |-> request.model, prompt |-> request.prompt,
                  stream |-> JSFalse]
        keys == (DOMAIN fixed \cup DOMAIN request.params) \ {"embedding"}
    IN  [k \in keys |-> IF k \in DOMAIN fixed THEN fixed[k]
                        ELSE request.params[k]]

\* lines 107-114: { model, prompt, stream: false, ...request.params }, then
\* delete payload.embedding: a parameter replaces the field of the same name.
payload(request) ==
    LET fixed == [model |-> request.model, prompt |-> request.prompt,
                  stream |-> JSFalse]
        keys == (DOMAIN fixed \cup DOMAIN request.params) \ {"embedding"}
    IN  [k \in keys |-> IF k \in DOMAIN request.params THEN request.params[k]
                        ELSE fixed[k]]

\* The request a call is made with, and then the endpoint and the payload of its
\* fetch.
PayloadObserved(op, request, url, body) ==
    [op |-> op, request |-> request, endpoint |-> url, payload |-> body]

InitPayload ==
    /\ statusMap = << >>
    /\ statusKeys = << >>
    /\ cache = [s \in Servers |-> NoEntry]
    /\ queue = << >>
    /\ isProcessing = FALSE
    /\ running = {}
    /\ fetching = EmptyBag
    /\ nextId = 1
    /\ reqCap = 0
    /\ nRefresh = 0
    /\ phase = "payload"
    /\ now = 1
    /\ awaitingBody = {}
    /\ history = << >>
    /\ returned = NoResult
    /\ \E params \in ParamSets :
           last = PayloadObserved("request",
                                  PromptRequest(NameM, Prompt, params), "", << >>)

\* runRequest builds the endpoint and the payload and calls fetch.
RunRequestFetch ==
    /\ last.op = "request"
    /\ last' = PayloadObserved("fetch", last.request, endpoint(last.request),
                               payload(last.request))
    /\ UNCHANGED <<awaitingBody, history, returned, statusMap, statusKeys, cache,
                   queue, isProcessing, running, fetching, nextId, reqCap,
                   nRefresh, phase, now>>

NextPayload == RunRequestFetch

PayloadSpec == InitPayload /\ [][NextPayload]_vars

(***************************************************************************)
(* Notions the properties below are stated in.  They are written from the  *)
(* claims' words, not from the operators of the services.                  *)
(***************************************************************************)
\* The number of executions in flight on server s.
InFlight(s) == Cardinality({e \in running : e.srv = s})

\* Server s is online and lists a model that matches m.
Hosts(sm, s, m) ==
    /\ sm[s].isOnline
    /\ \E i \in 1..Len(sm[s].models) : modelMatches(sm[s].models[i], m)

\* The priority rank of a server: its position in the configuration.
Rank(s) == CHOOSE i \in 1..Len(ConfigServers) : ConfigServers[i] = s

\* The servers that are online, host m and have no active request.
Qualifying(sm, m) ==
    {s \in DOMAIN sm : Hosts(sm, s, m) /\ sm[s].activeRequests = 0}

\* The model names the registry is asked about.
QueryModels == {NameM, NameMLatest, NameM7}

(***************************************************************************)
(* C1: in every reachable state every server's activeRequests is >= 0 and  *)
(* <= the number of executions in flight on that server.                   *)
(* Violated: refreshServer writes back the activeRequests of the object it *)
(* read before its fetch; when another refresh replaced that object in the *)
(* meantime, the count written is stale.                                   *)
(***************************************************************************)
C1_ActiveRequestsWithinInFlight ==
    \A s \in DOMAIN statusMap :
        /\ statusMap[s].activeRequests >= 0
        /\ statusMap[s].activeRequests <= InFlight(s)

(***************************************************************************)
(* C2: no server ever has two executions in flight at the same time.       *)
(* Violated: a stale refreshServer write resets a busy server's            *)
(* activeRequests to 0, and the server is selected again.                  *)
(***************************************************************************)
C2_OneExecutionPerServer == \A s \in Servers : InFlight(s) <= 1

(***************************************************************************)
(* C3: the record a refresh writes carries the activeRequests the server   *)
(* had immediately before the write.                                       *)
(* Violated by refreshServer after an overlapping refresh of the server.   *)
(***************************************************************************)
C3_RefreshKeepsActiveRequests ==
    [][last'.op \in RefreshSetOps =>
          statusMap'[last'.srv].activeRequests
              = statusMap[last'.srv].activeRequests]_vars

(***************************************************************************)
(* C4: for every model m, in every reachable registry state,               *)
(* getBestServerForModel(m) is the server of lowest priority rank among    *)
(* those that are online, host m and have activeRequests = 0, and is       *)
(* absent exactly when there is none.                                      *)
(***************************************************************************)
C4_BestServerIsLowestRankQualifying ==
    \A m \in QueryModels :
        LET best == getBestServerForModel(statusMap, statusKeys, m)
            qualifying == Qualifying(statusMap, m)
        IN  /\ (best = NoServer) <=> (qualifying = {})
            /\ best # NoServer =>
                   /\ best \in qualifying
                   /\ \A s \in qualifying : Rank(best) <= Rank(s)

\* Both servers qualify for a model and the first of the configuration is chosen.
C4_Witness ==
    /\ phase = "listening"
    /\ Cardinality(Qualifying(statusMap, NameM)) = 2
    /\ getBestServerForModel(statusMap, statusKeys, NameM) = ConfigServers[1]

(***************************************************************************)
(* C5: with pool [a, b], both online and hosting the model: a wildcard     *)
(* request submitted while both are free is dispatched to a; one submitted *)
(* while a is busy and b is free is dispatched to b; one submitted while   *)
(* both are busy is queued and starts no execution; and when an execution  *)
(* ends while a request waits, the first waiting request is dispatched to  *)
(* the server whose execution ended.                                       *)
(***************************************************************************)
PoolA == ConfigServers[1]

PoolB == ConfigServers[2]

BothHost ==
    /\ phase = "listening"
    /\ \A s \in Servers : Hosts(statusMap, s, NameM)

\* The step is an accepted wildcard submission of the request numbered nextId.
WildcardSubmitted ==
    /\ last'.op \in {"generateAny", "embed"}
    /\ last'.code = 0
    /\ nextId' = nextId + 1

\* The step starts exactly one execution: of request id, on server s.
StartsOnly(id, s) ==
    /\ \E e \in running' : e.id = id /\ e.srv = s /\ running' = running \cup {e}
    /\ \A e \in running : e.id # id

C5_TwoServerScenario ==
    [][BothHost =>
         /\ (WildcardSubmitted /\ InFlight(PoolA) = 0 /\ InFlight(PoolB) = 0)
                => StartsOnly(nextId, PoolA) /\ queue' = queue
         /\ (WildcardSubmitted /\ InFlight(PoolA) > 0 /\ InFlight(PoolB) = 0)
                => StartsOnly(nextId, PoolB) /\ queue' = queue
         /\ (WildcardSubmitted /\ InFlight(PoolA) > 0 /\ InFlight(PoolB) > 0)
                => /\ running' = running
                   /\ Len(queue') = Len(queue) + 1
                   /\ queue'[Len(queue')].id = nextId
                   /\ SubSeq(queue', 1, Len(queue)) = queue
         /\ (last'.op \in SettleOps /\ queue # << >>
                 /\ InFlight(PoolA) > 0 /\ InFlight(PoolB) > 0)
                => /\ \E e \in running' \ running :
                          e.id = Head(queue).id /\ e.srv = last'.srv
                   /\ queue' = Tail(queue)
    ]_vars

\* The third request waited, a's execution ended first, and it now runs on a
\* while the second still runs on b.
C5_Witness ==
    /\ BothHost
    /\ last.op \in SettleOps
    /\ last.srv = PoolA
    /\ last.id = 1
    /\ \E e \in running : e.id = 3 /\ e.srv = PoolA /\ e \in last.started
    /\ \E e \in running : e.id = 2 /\ e.srv = PoolB

(***************************************************************************)
(* C6: an execution of a request that names server S starts on S only, and *)
(* only when S is online, lists a model matching the request and has       *)
(* activeRequests = 0 at the moment it is placed (so that the count is 1   *)
(* once it is placed), whether it starts at submission or from the queue.  *)
(***************************************************************************)
C6_NamedServerOnly ==
    [][\A e \in running' \ running :
           e.request.serverName # AnyServer =>
               /\ e.srv = e.request.serverName
               /\ Hosts(statusMap, e.srv, e.request.model)
               /\ Hosts(statusMap', e.srv, e.request.model)
               /\ statusMap'[e.srv].activeRequests = 1
               /\ last'.op \in SettleOps /\ last'.srv # e.srv
                      => statusMap[e.srv].activeRequests = 0
               /\ last'.op \in SubmitOps
                      => statusMap[e.srv].activeRequests = 0
    ]_vars

\* A request naming a server waited for it and was started on it from the queue,
\* while the other server was free and hosted the model.
C6_Witness ==
    /\ last.op \in SettleOps
    /\ \E e \in last.started :
           /\ e \in running
           /\ e.request.serverName = e.srv
           /\ \E s \in Servers \ {e.srv} : s \in Qualifying(statusMap, e.request.model)

(***************************************************************************)
(* C7: POST /generate/server for a configured server that is offline or    *)
(* lists no model matching the request answers 503 at once: no execution   *)
(* starts, no activeRequests changes and the queue is as it was.           *)
(***************************************************************************)
C7_NamedUnsupportedRejected ==
    [][\A name \in Servers, model \in RequestModels :
           (/\ GenerateServer(name, model)
            /\ name \in DOMAIN statusMap
            /\ ~Hosts(statusMap, name, model))
           => /\ last'.code = 503
              /\ running' = running
              /\ queue' = queue
              /\ \A s \in DOMAIN statusMap :
                     statusMap'[s].activeRequests = statusMap[s].activeRequests
    ]_vars

\* A request naming an online server that lacks the model was answered 503 while
\* another request was waiting and an execution was in flight.
C7_Witness ==
    /\ last.op = "generateServer"
    /\ last.code = 503
    /\ statusMap[last.srv].isOnline
    /\ queue # << >>
    /\ running # {}

(***************************************************************************)
(* C8: POST /generate/any or POST /embed for a model that no online server *)
(* hosts answers 503 at once: the queue length and every server's          *)
(* activeRequests are unchanged, and no execution starts.                  *)
(***************************************************************************)
C8_WildcardUnhostedRejected ==
    [][\A model \in RequestModels :
           (/\ GenerateAny(model) \/ Embed(model)
            /\ \A s \in DOMAIN statusMap : ~Hosts(statusMap, s, model))
           => /\ last'.code = 503
              /\ Len(queue') = Len(queue)
              /\ running' = running
              /\ \A s \in DOMAIN statusMap :
                     statusMap'[s].activeRequests = statusMap[s].activeRequests
    ]_vars

\* A wildcard request was answered 503 while a request was waiting and a server
\* had an active request.
C8_Witness ==
    /\ last.op \in {"generateAny", "embed"}
    /\ last.code = 503
    /\ queue # << >>
    /\ \E s \in DOMAIN statusMap : statusMap[s].activeRequests > 0

(***************************************************************************)
(* C9: when an execution on server S completes or fails, every waiting     *)
(* request that S qualifies for (S online with a matching model, and S the *)
(* named server if one is named) is started on S in that step, unless an   *)
(* earlier waiting request is started on S in that step.                   *)
(* Violated: a refresh that frees or brings online another server runs no  *)
(* scan (C10), so a waiting wildcard request goes to that server instead.  *)
(***************************************************************************)
QualifiesFor(sm, s, request) ==
    /\ Hosts(sm, s, request.model)
    /\ request.serverName # AnyServer => request.serverName = s

PlacedOn(id, s) == \E e \in running' \ running : e.id = id /\ e.srv = s

C9_CompletionPlacesQueued ==
    [][last'.op \in SettleOps =>
          \A i \in 1..Len(queue) :
              QualifiesFor(statusMap, last'.srv, queue[i].request) =>
                  \/ PlacedOn(queue[i].id, last'.srv)
                  \/ \E j \in 1..(i - 1) : PlacedOn(queue[j].id, last'.srv)
    ]_vars

(***************************************************************************)
(* C10: a waiting request that a refresh has made placeable (the refreshed *)
(* server is online with a matching model and no active request, and is    *)
(* the named server if one is named) is placed without a further           *)
(* submission or completion.  Stated on the states in which the refresh    *)
(* has written and nothing is pending (no fetch and no execution is in     *)
(* flight): from there only a submission or another refresh call can       *)
(* happen, so a request still waiting there is placed by neither.  The     *)
(* property says that no such state has a placeable waiting request.       *)
(* Violated: neither refreshPool nor refreshServer calls processQueue.     *)
(***************************************************************************)
PlaceableAfterRefresh(id) ==
    /\ last.op \in RefreshSetOps
    /\ \E i \in 1..Len(queue) :
           /\ queue[i].id = id
           /\ QualifiesFor(statusMap, last.srv, queue[i].request)
           /\ statusMap[last.srv].activeRequests = 0

C10_RefreshPlacesQueued ==
    (running = {} /\ fetching = EmptyBag) =>
        \A id \in 1..MaxReq : ~PlaceableAfterRefresh(id)

(***************************************************************************)
(* C11: one processQueue pass considers the queued items in arrival order; *)
(* an item is removed and started iff findServerForRequest finds a server  *)
(* when the item is considered, the servers taken by earlier items of the  *)
(* pass counting as busy; the items left are exactly the unmatched ones in *)
(* their original relative order.                                          *)
(* Stated on the steps that run a pass: the end of an execution, and a     *)
(* submission that is enqueued.                                            *)
(***************************************************************************)
\* The executions the step starts.
NewExecutions == running' \ running

\* The step is a submission that went through enqueue.
EnqueueStep ==
    /\ last'.op \in SubmitOps
    /\ last'.code = 0
    /\ last'.srv = NoServer

\* The request of the submission that the step accepts.
SubmittedRequest ==
    LET inQueue == {queue'[i].request : i \in {j \in 1..Len(queue') : queue'[j].id = nextId}}
        inFlight == {e.request : e \in {x \in running' : x.id = nextId}}
    IN  CHOOSE r \in inQueue \cup inFlight : TRUE

\* The queue the pass of the step scans.
PassQueue ==
    IF EnqueueStep
    THEN Append(queue, [id |-> nextId, request |-> SubmittedRequest, createdAt |-> now])
    ELSE queue

\* The registry the pass of the step starts from.
PassRegistry ==
    IF EnqueueStep
    THEN statusMap
    ELSE [statusMap EXCEPT ![last'.srv].activeRequests = IF @ > 0 THEN @ - 1 ELSE @]

\* The registry when item i of the pass is considered: the servers taken by the
\* earlier items of the pass are busy.
RegistryAt(i) ==
    [s \in DOMAIN statusMap |->
        [PassRegistry[s] EXCEPT !.activeRequests =
            @ + Cardinality({j \in 1..(i - 1) :
                                \E e \in NewExecutions :
                                    e.id = PassQueue[j].id /\ e.srv = s})]]

Unmatched(item) == \A e \in NewExecutions : e.id # item.id

C11_PassPlacesEveryServableItem ==
    [][(last'.op \in SettleOps \/ EnqueueStep) =>
          /\ \A i \in 1..Len(PassQueue) :
                 LET found == findServerForRequest(RegistryAt(i), statusKeys,
                                                   PassQueue[i].request)
                 IN  IF found # NoServer
                     THEN \E e \in NewExecutions :
                              /\ e.id = PassQueue[i].id
                              /\ e.srv = found
                              /\ e.request = PassQueue[i].request
                     ELSE Unmatched(PassQueue[i])
          /\ \A e \in NewExecutions :
                 \E i \in 1..Len(PassQueue) : PassQueue[i].id = e.id
          /\ queue' = SelectSeq(PassQueue, Unmatched)
          /\ statusMap' = RegistryAt(Len(PassQueue) + 1)
    ]_vars

\* A pass has started a later item while an earlier item stays in the queue.
C11_Witness ==
    /\ last.op \in SettleOps
    /\ \E e \in last.started :
           /\ e \in running
           /\ \E i \in 1..Len(queue) : queue[i].id < e.id

(***************************************************************************)
(* C12: when the backend call of an execution on server S fails, the       *)
(* caller of that request observes the rejection; S's activeRequests is    *)
(* decremented (not below zero) before the scan, so that it ends as the    *)
(* decremented count plus the executions the scan starts on S; the scan    *)
(* starts the first waiting request that finds a server; and the failed    *)
(* request is neither in the queue nor in flight afterwards.               *)
(***************************************************************************)
\* The registry after the count of s has been decremented, not below zero.
Decremented(sm, s) ==
    [sm EXCEPT ![s].activeRequests = IF @ > 0 THEN @ - 1 ELSE 0]

QueuePositions(q, id) == {i \in 1..Len(q) : q[i].id = id}

ExecutionsOf(run, id) == {e \in run : e.id = id}

\* Where request id is, given the queue, the executions and the ids handed out.
Stage(q, run, next, id) ==
    IF id >= next THEN "unsubmitted"
    ELSE IF QueuePositions(q, id) # {} THEN "queued"
    ELSE IF ExecutionsOf(run, id) # {} THEN "inflight"
    ELSE "settled"

\* Request id is in at most one place.
InOnePlace(q, run, next, id) ==
    /\ Cardinality(QueuePositions(q, id)) + Cardinality(ExecutionsOf(run, id)) <= 1
    /\ id >= next => QueuePositions(q, id) = {} /\ ExecutionsOf(run, id) = {}

OnlyFor(s) ==
    {i \in 1..Len(queue) :
        /\ QualifiesFor(statusMap, s, queue[i].request)
        /\ \A o \in DOMAIN statusMap \ {s} :
               ~QualifiesFor(statusMap, o, queue[i].request)}

FailedFetch == [ok |-> FALSE, models |-> << >>]

C15_FailedFetchSetsOffline ==
    [][\A t \in BagToSet(fetching) :
           FetchDone(t, FailedFetch) => ~statusMap'[t.srv].isOnline
    ]_vars

(***************************************************************************)
(* C16: in every reachable state every waiting request has a qualifying    *)
(* server (online with a matching model, and the named server if one is    *)
(* named) that is busy.                                                    *)
(* Violated: a refresh that takes the request's only qualifying server     *)
(* offline, or changes its model list, leaves the request in the queue.    *)
(***************************************************************************)
C16_QueuedHasBusyQualifyingServer ==
    \A i \in 1..Len(queue) :
        \E s \in DOMAIN statusMap :
            /\ QualifiesFor(statusMap, s, queue[i].request)
            /\ statusMap[s].activeRequests > 0

(***************************************************************************)
(* C17: when the fetch of a getModels or refreshCache call fails, the call *)
(* returns the models of the cache entry of that base URL if there is one, *)
(* however old, and the empty list otherwise, and the cache is left as it  *)
(* was.                                                                    *)
(***************************************************************************)
CacheReturns == {"getModels.return", "refreshCache.return"}

C17_FailedFetchReturnsStaleOrEmpty ==
    [][(last'.op \in CacheReturns /\ ~last'.ok) =>
          LET url == last'.srv
          IN  /\ cache[url].present => last'.models = cache[url].models
              /\ ~cache[url].present => last'.models = << >>
              /\ cache' = cache
    ]_vars

\* A getModels call found its entry too old, its fetch failed and it returned
\* the models of that entry.
C17_Witness ==
    /\ last.op = "getModels.return"
    /\ ~last.ok
    /\ last.models # << >>
    /\ cache[last.srv].present
    /\ now - cache[last.srv].timestamp >= TTL_MS

(***************************************************************************)
(* C18: getModels(url) answers from the cache without a fetch iff url has  *)
(* an entry whose age is strictly less than the TTL, and fetches           *)
(* otherwise; a fetch that succeeds replaces the entry of url by the       *)
(* fetched list and the current time and leaves the other entries alone;   *)
(* refreshCache fetches whatever the entry's age; clearCache(url) leaves   *)
(* no entry for url, and a getModels(url) that follows it fetches.         *)
(***************************************************************************)
PendingFor(bag, url) ==
    CopiesIn(CacheFetch("getModels", url), bag)
        + CopiesIn(CacheFetch("refreshCache", url), bag)

HasSeparator(name) == \E i \in 1..Len(name) : name[i] = Colon

SeparatorAt(name) ==
    CHOOSE i \in 1..Len(name) :
        name[i] = Colon /\ \A j \in 1..(i - 1) : name[j] # Colon

BaseOf(name) ==
    IF HasSeparator(name) THEN SubSeq(name, 1, SeparatorAt(name) - 1) ELSE name

TagOf(name) ==
    IF HasSeparator(name)
    THEN SubSeq(name, SeparatorAt(name) + 1, Len(name))
    ELSE Latest

C19_MatchIsExactOnBaseAndTag ==
    last.op = "modelMatches" =>
        LET x == last.availableModel
            y == last.requestedModel
        IN  /\ last.result = modelMatches(y, x)
            /\ last.result <=> (BaseOf(x) = BaseOf(y) /\ TagOf(x) = TagOf(y))

(***************************************************************************)
(* C20: for every server s and model name m, in every reachable registry   *)
(* state, getAvailableServersForModel(m) contains s iff s is online and    *)
(* some model of s matches m under the base/tag rule of C19, and it lists  *)
(* the servers in configuration order.                                     *)
(* Violated for names with a second ":" only, through modelMatches (C19).  *)
(***************************************************************************)
RuleMatches(x, y) == BaseOf(x) = BaseOf(y) /\ TagOf(x) = TagOf(y)

\* A name with a second separator after its tag.
NameM7Colon7 == <<"m", ":", "7", ":", "7">>

C20_AvailableServersAreTheHosts ==
    \A m \in QueryModels \cup {NameM7Colon7} :
        LET listed == getAvailableServersForModel(statusMap, statusKeys, m)
        IN  /\ \A s \in DOMAIN statusMap :
                   (\E i \in 1..Len(listed) : listed[i] = s)
                       <=> /\ statusMap[s].isOnline
                           /\ \E k \in 1..Len(statusMap[s].models) :
                                  RuleMatches(statusMap[s].models[k], m)
            /\ \A i \in 1..Len(listed), j \in 1..Len(listed) :
                   i < j => Rank(listed[i]) < Rank(listed[j])

(***************************************************************************)
(* C21: the history write is invoked only after a non-empty response is    *)
(* produced.  A step that ends an execution with a rejection (failure or   *)
(* timeout) leaves the history as it was; so does the step for a reply     *)
(* that carries neither a response nor an embedding, and the step for a    *)
(* reply whose response is the empty string; a step adds at most one row,  *)
(* no execution has two rows and no row has an empty response text.        *)
(* Violated: line 134 tests the fields against null, so a reply whose      *)
(* response is "" passes and the write is invoked with an empty text.      *)
(***************************************************************************)
CarriesNeither(data) == data.response = JSNull /\ data.embedding = JSNull

EmptyResponse(data) ==
    data.response = JSString(<< >>) /\ data.embedding = JSNull

C21_HistoryOnlyAfterNonEmptyResponse ==
    [][/\ last'.op \in FailOps => history' = history
       /\ \A e \in running, data \in Bodies, dbThrows \in BOOLEAN :
              (BodyParsed(e, data, dbThrows)
                  /\ (CarriesNeither(data) \/ EmptyResponse(data)))
                  => history' = history
       /\ Len(history') <= Len(history) + 1
       /\ \A i, j \in 1..Len(history') :
              history'[i].prompt = history'[j].prompt => i = j
       /\ \A i \in 1..Len(history') : history'[i].responseText # << >>
    ]_vars

(***************************************************************************)
(* C22: when the backend call succeeds and the history write throws, the   *)
(* request resolves with the result it has with a successful write (the    *)
(* reply's response text, or the JSON text of its embedding), the server's *)
(* count is decremented and the queue is scanned: the first waiting        *)
(* request that finds a server once the count is down is started.          *)
(***************************************************************************)
ProducedText(data) ==
    IF data.response.type = "string" /\ data.response.value # << >>
    THEN data.response.value
    ELSE IF data.embedding = JSArray(Vector) THEN <<"[", "1", ",", "2", "]">>
    ELSE IF data.embedding = JSArray(<< >>) THEN <<"[", "]">>
    ELSE << >>

C22_HistoryWriteFailureIsSwallowed ==
    [][\A f \in running, data \in Bodies :
           BodyParsed(f, data, TRUE) =>
               LET freed == Decremented(statusMap, f.srv)
                   servable(i) == findServerForRequest(freed, statusKeys,
                                                       queue[i].request) # NoServer
               IN  /\ last'.op = "complete" /\ last'.id = f.id
                   /\ returned' = [response |-> ProducedText(data),
                                   serverName |-> f.srv,
                                   model |-> f.request.model]
                   /\ statusMap'[f.srv].activeRequests
                          = freed[f.srv].activeRequests
                              + Cardinality({e \in NewExecutions : e.srv = f.srv})
                   /\ \A i \in 1..Len(queue) :
                          (servable(i) /\ \A j \in 1..(i - 1) : ~servable(j))
                              => \E e \in NewExecutions : e.id = queue[i].id
                   /\ \A e \in running' : e.id # f.id
    ]_vars

\* An execution's history write threw, the request resolved with the reply's
\* text and the scan started a waiting request on the freed server.
C22_Witness ==
    /\ last.op = "complete"
    /\ history # << >>
    /\ history[Len(history)].prompt = last.id
    /\ history[Len(history)].thrown
    /\ returned.response = Text
    /\ \E e \in last.started : e \in running /\ e.srv = last.srv
    /\ statusMap[last.srv].activeRequests = 1

(***************************************************************************)
(* C23: a POST /generate/server request that passes the server-exists and  *)
(* model-available checks bypasses the queue: the step that accepts it     *)
(* starts its execution on the named server and leaves the queue as it     *)
(* was, also when the named server is running another request.             *)
(* Violated: the route calls dispatchOrQueue, which enqueues the request   *)
(* when the named server is busy; dispatchDirect has no caller.            *)
(***************************************************************************)
C23_NamedRequestBypassesQueue ==
    [][\A name \in Servers, model \in RequestModels :
           (GenerateServer(name, model) /\ last'.code = 0) =>
               /\ queue' = queue
               /\ \E e \in NewExecutions : e.id = last'.id /\ e.srv = name
    ]_vars

(***************************************************************************)
(* C27: every execution started by runRequest settles and releases its     *)
(* server, because the hard timeout aborts a call the backend never        *)
(* answers, or answers with headers and no body.  Stated on the states: as *)
(* long as an execution has not settled, its hard timeout is pending, so   *)
(* that the timer's firing ends it as a failure with the decrement and the *)
(* scan.                                                                   *)
(* Violated: clearTimeout runs at line 126, right after the fetch has      *)
(* resolved with the headers, so nothing ends an execution that waits at   *)
(* response.json() for a body that never arrives.                          *)
(***************************************************************************)
C27_HardTimeoutCoversExecution ==
    \A e \in running : timeoutPending(e)

(***************************************************************************)
(* C24: refreshServer(name) with a name that is not in the registry fails  *)
(* with a not-found error, starts no fetch and leaves every server's       *)
(* status record, the order of the records and the model cache as they     *)
(* were; the route answers such a name with 404 and the same holds.        *)
(***************************************************************************)
C24_UnknownNameRefreshesNothing ==
    [][\A name \in RefreshNames :
           name \notin DOMAIN statusMap =>
               /\ refreshServer(name) => last'.op = "refreshServer.throw"
               /\ RefreshServer(name) => last'.code = 404
               /\ (refreshServer(name) \/ RefreshServer(name)) =>
                      /\ last'.srv = name
                      /\ fetching' = fetching
                      /\ statusMap' = statusMap
                      /\ statusKeys' = statusKeys
                      /\ cache' = cache
    ]_vars

\* refreshServer was called with an unknown name while the registry held online
\* servers and a refresh was waiting for its fetch.
C24_Witness ==
    /\ last.op = "refreshServer.throw"
    /\ last.srv \notin DOMAIN statusMap
    /\ \E s \in Servers : statusMap[s].isOnline
    /\ fetching # EmptyBag

(***************************************************************************)
(* C29: in every state after initialize has created the records,           *)
(* getServers lists the servers in the order of the configuration,         *)
(* whatever the order in which the fetches of refreshPool complete and     *)
(* whatever refreshPool and refreshServer calls have run.                  *)
(***************************************************************************)
C29_GetServersInConfigurationOrder ==
    phase # "new" => getServers(statusKeys) = ConfigServers

\* During initialize the fetch of the second server completed before that of the
\* first one.
C29_Witness ==
    /\ phase = "initializing"
    /\ last.op = "refreshPool.set"
    /\ last.srv = ConfigServers[2]
    /\ PoolFetch(ConfigServers[1]) \in BagToSet(fetching)
    /\ getServers(statusKeys) = ConfigServers

(***************************************************************************)
(* C30: for every server, isOnline is true iff the stored model list is    *)
(* not empty; the step that stores a refresh sets isOnline iff the         *)
(* refreshCache call returned at least one model, and no other step        *)
(* changes isOnline or the models; the records initialize creates are      *)
(* offline with no models and activeRequests 0, and so is every record     *)
(* whose first refresh has not completed.                                  *)
(***************************************************************************)
FirstRefreshPending(s) ==
    phase = "initializing" /\ PoolFetch(s) \in BagToSet(fetching)

C30_OnlineIffModelsListed ==
    [][/\ \A s \in DOMAIN statusMap' :
              /\ statusMap'[s].isOnline <=> statusMap'[s].models # << >>
              /\ FirstRefreshPending(s)' =>
                     /\ ~statusMap'[s].isOnline
                     /\ statusMap'[s].models = << >>
                     /\ statusMap'[s].activeRequests = 0
       /\ \A t \in BagToSet(fetching), outcome \in FetchOutcomes :
              FetchDone(t, outcome) =>
                  /\ statusMap'[t.srv].isOnline
                         <=> Len(refreshCacheResult(cache, t.srv, outcome)) > 0
                  /\ statusMap'[t.srv].models
                         = refreshCacheResult(cache, t.srv, outcome)
       /\ last'.op \notin RefreshSetOps =>
              \A s \in DOMAIN statusMap :
                  /\ statusMap'[s].isOnline = statusMap[s].isOnline
                  /\ statusMap'[s].models = statusMap[s].models
    ]_vars

\* A refresh whose fetch listed no model has stored its server offline while
\* another server is online with the models it listed.
C30_Witness ==
    /\ last.op \in RefreshSetOps
    /\ phase = "listening"
    /\ ~statusMap[last.srv].isOnline
    /\ cache[last.srv].present
    /\ cache[last.srv].models = << >>
    /\ \E s \in Servers : statusMap[s].isOnline /\ statusMap[s].models # << >>

(***************************************************************************)
(* C25: no queued request is skipped permanently: if every started         *)
(* execution settles and no refresh removes its qualifying servers, every  *)
(* queued request is eventually taken from the queue and executed.  Stated *)
(* on the runs in which every server stays online with the model (no       *)
(* refresh removes a qualifying server), at the states in which every      *)
(* started execution has settled and no refresh is waiting for its fetch:  *)
(* nothing further happens there unless a new call arrives, so the queue   *)
(* is empty there.                                                         *)
(* Violated: refreshServer stores the activeRequests of the record it read *)
(* before its fetch (C3), which can leave an idle server with a count of 1 *)
(* for good; a request queued for it is never started.                     *)
(***************************************************************************)
C25_QueuedRequestIsNotLeftBehind ==
    (phase = "listening" /\ running = {} /\ fetching = EmptyBag)
        => queue = << >>

(***************************************************************************)
(* C26: no queue scan is in progress at a suspension point, so a call of   *)
(* processQueue never meets a running scan and at most one scan executes   *)
(* at a time; the queue changes only in the step of an enqueue or of an    *)
(* execution's end, and the scan such a step triggers has run when the     *)
(* step ends: no item left in the queue finds a server in the registry as  *)
(* the step leaves it.                                                     *)
(***************************************************************************)
ScanTrigger == EnqueueStep \/ last'.op \in SettleOps

C26_ScansAreAtomicAndNeverDropped ==
    [][/\ ~isProcessing'
       /\ queue' # queue => ScanTrigger
       /\ ScanTrigger =>
              \A i \in 1..Len(queue') :
                  findServerForRequest(statusMap', statusKeys',
                                       queue'[i].request) = NoServer
    ]_vars

\* An execution ended, its scan started a waiting request and another request is
\* still waiting.
C26_Witness ==
    /\ last.op \in SettleOps
    /\ last.started # {}
    /\ last.started \subseteq running
    /\ queue # << >>
    /\ ~isProcessing

(***************************************************************************)
(* C28: dispatchOrQueue(request) starts an execution at once and leaves    *)
(* the queue as it was iff findServerForRequest returns a server at the    *)
(* moment of the call; otherwise it puts exactly one item for the request  *)
(* at the end of the queue, starts no execution for it and keeps the order *)
(* of the items that stay; and the handle settles only in the step that    *)
(* ends the request's execution, which was taken from the queue before.    *)
(***************************************************************************)
SubmittableRequests ==
    {Request(model, serverName, embedding) :
        model \in RequestModels, serverName \in Servers \cup {AnyServer},
        embedding \in BOOLEAN}

\* The items of q other than those of request id, in q's order.
Others(q, id) == SelectSeq(q, LAMBDA item : item.id # id)

\* Sequence p is q with some items left out.
StaysOf(p, q) ==
    p = SelectSeq(q, LAMBDA item : \E i \in 1..Len(p) : p[i] = item)

C28_DispatchOrQueueFrame ==
    [][/\ \A request \in SubmittableRequests, op \in SubmitOps :
              dispatchOrQueue(request, op) =>
                  LET server == findServerForRequest(statusMap, statusKeys, request)
                      id == nextId
                  IN  /\ ExecutionsOf(running', id) # {} <=> server # NoServer
                      /\ server # NoServer =>
                             /\ queue' = queue
                             /\ NewExecutions = {Execution(id, server, request)}
                      /\ server = NoServer =>
                             /\ queue' # << >>
                             /\ queue'[Len(queue')].id = id
                             /\ queue'[Len(queue')].request = request
                             /\ QueuePositions(queue', id) = {Len(queue')}
                             /\ StaysOf(Others(queue', id), queue)
       /\ last'.op \in SettleOps =>
              /\ ExecutionsOf(running, last'.id) # {}
              /\ QueuePositions(queue, last'.id) = {}
    ]_vars

\* A request that found no server was put behind a request already waiting, and
\* nothing was started.
C28_Witness ==
    /\ last.op \in SubmitOps
    /\ last.code = 0
    /\ last.started = {}
    /\ Len(queue) >= 2
    /\ queue[Len(queue)].id = last.id
    /\ ExecutionsOf(running, last.id) = {}

(***************************************************************************)
(* C31: a request whose params carry the embedding flag is sent to         *)
(* /api/embeddings and every other request to /api/generate; the payload   *)
(* holds the request's model, the request's prompt, stream = false and the *)
(* remaining params, and never the embedding flag.                         *)
(* Violated: the payload spreads request.params after the fixed fields, so *)
(* a parameter named stream, model or prompt replaces the fixed field.     *)
(***************************************************************************)
FlagCarried(params) ==
    "embedding" \in DOMAIN params /\ params["embedding"] = JSTrue

FixedFields == {"model", "prompt", "stream"}

C31_EndpointAndPayload ==
    last.op = "fetch" =>
        LET request == last.request
            sent == last.payload
        IN  /\ last.endpoint = IF FlagCarried(request.params)
                               THEN "/api/embeddings" ELSE "/api/generate"
            /\ FixedFields \subseteq DOMAIN sent
            /\ sent["model"] = request.model
            /\ sent["prompt"] = request.prompt
            /\ sent["stream"] = JSFalse
            /\ \A k \in DOMAIN request.params \ (FixedFields \cup {"embedding"}) :
                   k \in DOMAIN sent /\ sent[k] = request.params[k]
            /\ "embedding" \notin DOMAIN sent

(***************************************************************************)
(* C32: dispatchDirect(server, request) starts an execution on the given   *)
(* server at once, whatever the server's activeRequests, online state and  *)
(* model list, and leaves the queue as it was; the execution is bracketed  *)
(* by one increment and one decrement of that server's activeRequests (the *)
(* count is the number of executions in flight on the server), and the     *)
(* step that ends it scans the queue: no item it leaves finds a server.    *)
(***************************************************************************)
C32_DispatchDirectStartsAtOnce ==
    [][/\ \A name \in Servers, model \in RequestModels :
              DispatchDirect(name, model) =>
                  /\ queue' = queue
                  /\ \E e \in NewExecutions :
                         /\ NewExecutions = {e}
                         /\ e.id = nextId /\ e.srv = name
                         /\ e.request.model = model
                  /\ statusMap'[name].activeRequests
                         = statusMap[name].activeRequests + 1
                  /\ \A s \in Servers \ {name} : statusMap'[s] = statusMap[s]
       /\ \A s \in DOMAIN statusMap' :
              statusMap'[s].activeRequests
                  = Cardinality({e \in running' : e.srv = s})
       /\ last'.op \in SettleOps =>
              /\ statusMap'[last'.srv].activeRequests
                     = statusMap[last'.srv].activeRequests - 1
                         + Cardinality({e \in NewExecutions : e.srv = last'.srv})
              /\ \A i \in 1..Len(queue') :
                     findServerForRequest(statusMap', statusKeys',
                                          queue'[i].request) = NoServer
    ]_vars

\* dispatchDirect has started a second execution on a server that is offline and
\* lists no model.
C32_Witness ==
    /\ last.op = "dispatchDirect"
    /\ ~statusMap[last.srv].isOnline
    /\ statusMap[last.srv].models = << >>
    /\ statusMap[last.srv].activeRequests = 2
    /\ \E e \in running : e.id = last.id /\ e.srv = last.srv

(***************************************************************************)
(* C33: at every suspension point (no queue scan is executing) no queued   *)
(* request has a server that is online, lists a matching model, has no     *)
(* active request and is acceptable to the request, under any interleaving *)
(* of submissions, completions and refreshes.                              *)
(* Violated: a refresh that brings a server online, or stores a count of   *)
(* 0, starts no scan (C10), so the request keeps waiting next to a server  *)
(* that findServerForRequest would return for it.                          *)
(***************************************************************************)
FreeFor(sm, s, request) ==
    QualifiesFor(sm, s, request) /\ sm[s].activeRequests = 0

C33_NoServableRequestWaits ==
    ~isProcessing =>
        \A i \in 1..Len(queue) :
            /\ \A s \in DOMAIN statusMap : ~FreeFor(statusMap, s, queue[i].request)
            /\ findServerForRequest(statusMap, statusKeys, queue[i].request)
                   = NoServer

(***************************************************************************)
(* C34: the immediate path of dispatchOrQueue never overtakes queued work: *)
(* the step that places a newly submitted request directly on a server     *)
(* leaves no earlier request waiting in the queue that the same server     *)
(* could serve (the server is online, lists a matching model and is        *)
(* acceptable to that request).                                            *)
(* Violated: after a refresh has freed or added a server without a scan    *)
(* (C10), the next submission finds that server and takes it while the     *)
(* earlier request stays in the queue.                                     *)
(***************************************************************************)
DirectPlacement ==
    /\ last'.op \in SubmitOps
    /\ last'.code = 0
    /\ last'.srv # NoServer

C34_ImmediatePathNeverOvertakes ==
    [][DirectPlacement =>
           \A i \in 1..Len(queue) :
               ~QualifiesFor(statusMap, last'.srv, queue[i].request)
    ]_vars

(***************************************************************************)
(* C36: when no refresh occurs, dispatch-or-queue and always-queue are     *)
(* equivalent: from every state the runs reach, the step dispatchOrQueue   *)
(* takes for a request is the step enqueue takes for it (the same server   *)
(* assignment, the same counts, the same queue), and completions are the   *)
(* same code in both, so the two variants go through the same states for   *)
(* every sequence of submissions and completions.                          *)
(***************************************************************************)
AlwaysQueue(request) ==
    LET item == [id |-> nextId, request |-> request, createdAt |-> now]
    IN  processQueue(Append(queue, item), statusMap, statusKeys, isProcessing)

C36_DispatchOrQueueIsEnqueue ==
    [][\A request \in SubmittableRequests, op \in SubmitOps :
           dispatchOrQueue(request, op) =>
               /\ statusMap' = AlwaysQueue(request).statusMap
               /\ queue' = AlwaysQueue(request).remaining
               /\ running' = running \cup AlwaysQueue(request).started
               /\ nextId' = nextId + 1
               /\ isProcessing' = isProcessing
               /\ UNCHANGED <<statusKeys, cache, fetching, phase>>
    ]_vars

\* A request was placed directly on a free server while another request was
\* waiting in the queue for a busy one.
C36_Witness ==
    /\ last.op \in SubmitOps
    /\ last.code = 0
    /\ last.srv # NoServer
    /\ \E e \in running : e.id = last.id /\ e.srv = last.srv
    /\ queue # << >>

(***************************************************************************)
(* C35: a /generate/batch request is admitted all-or-nothing.  If some     *)
(* listed model has no online server that hosts it, the step answers 503,  *)
(* starts no execution and enqueues nothing.  Otherwise the step submits   *)
(* exactly one request per list entry, duplicates included, in list order: *)
(* entry i becomes request nextId + i - 1 for that entry's model, and is   *)
(* either in flight or in the queue, the queued ones in list order; and    *)
(* two entries of the batch for the same model are never in flight on the  *)
(* same server at the same time.                                           *)
(* Violated in its last part: refreshServer can store a stale count of 0   *)
(* for a server that runs an entry (C3), and the next scan places a queued *)
(* entry for the same model on that server.                                *)
(***************************************************************************)
Admitted(models) == \A i \in 1..Len(models) : Qualifying(statusMap, models[i]) # {}

OneRequestPerEntry(models) ==
    /\ nextId' = nextId + Len(models)
    /\ \A i \in 1..Len(models) :
           LET id == nextId + i - 1
               where == {e \in running' : e.id = id}
               waits == {k \in 1..Len(queue') : queue'[k].id = id}
           IN  /\ Cardinality(where) + Cardinality(waits) = 1
               /\ \A e \in where : e.request.model = models[i]
               /\ \A k \in waits : queue'[k].request.model = models[i]
    /\ \A k, l \in 1..Len(queue') : k < l => queue'[k].id < queue'[l].id

C35_BatchAllOrNothing ==
    [][/\ \A models \in BatchLists :
              GenerateBatch(models) =>
                  IF Admitted(models)
                  THEN last'.code = 0 /\ OneRequestPerEntry(models)
                  ELSE /\ last'.code = 503
                       /\ running' = running
                       /\ queue' = queue
                       /\ statusMap' = statusMap
                       /\ nextId' = nextId
       /\ \A e, f \in running' :
              (e.srv = f.srv /\ e.request.model = f.request.model) => e = f
    ]_vars

=============================================================================
